---- MODULE Spec2Model ----
(***************************************************************************)
(* A model of the asyncio web crawler of src/crawler.py.                   *)
(*                                                                         *)
(* The crawler runs max_tasks worker coroutines and one orchestrator       *)
(* coroutine (crawl) on a single event loop.  A coroutine runs without     *)
(* interruption until it suspends; the suspension points of the code are   *)
(* q.get(), session.get(), response.read(), response.release() and         *)
(* q.join().  Every action below is the code that runs between two         *)
(* suspension points of one coroutine.  The web site is the environment:   *)
(* the answer to every GET is chosen when it arrives.  The worker tasks    *)
(* run the same code and carry no name, so they are kept as a bag of their *)
(* local states.                                                           *)
(***************************************************************************)
EXTENDS Integers, Sequences, FiniteSets, Bags, TLC

----------------------------------------------------------------------------
(* Bounds of the model.                                                    *)

\* the largest max_tasks a crawl is started with
MaxTasks == 2
\* the largest max_redirect a crawl is started with
MaxRedirect == 2
\* the largest number of anchors on one page
MaxLinks == 2
\* the largest number of anchors and Location headers of the whole site
MaxSiteLinks == 4
\* the largest number of answers of a crawl that are neither a decodable
\* text/html page with status 200 nor a redirect with a Location header
MaxSpecial == 1
\* the largest number of calls of add_url a caller of the class makes
MaxAdmits == 2

----------------------------------------------------------------------------
(* URLs.  A URL string is modelled by its parsed parts; the host is a      *)
(* sequence of characters because host_okay looks into it.                 *)

URL(scheme, host, path, frag) ==
    [scheme |-> scheme, host |-> host, path |-> path, frag |-> frag]

HostEx == <<"e", "x">>
HostSub == <<"s", ".", "e", "x">>

RootURL == URL("http", HostEx, "/", "")
PageAFrag == URL("http", HostEx, "/a", "f")
PageX == URL("http", HostSub, "/x", "")
\* references without scheme and host
RelB == URL("", <<>>, "/b", "")
RelC == URL("", <<>>, "/c", "")

\* the roots a crawl is started with
Roots == {RootURL}
\* the href values of the anchors the site serves
Hrefs == {PageAFrag, RelB, RelC, PageX}
\* the Location values the site serves
Locations == {PageAFrag, RelB, PageX}

\* re.match(r'\A[\d\.]*\Z', host)
Digits == {"0", "1", "2", "3", "4", "5", "6", "7", "8", "9"}
IsDigitsDots(host) == \A i \in 1..Len(host) : host[i] \in Digits \cup {"."}

LowerChar(c) ==
    CASE c = "E" -> "e"
      [] c = "X" -> "x"
      [] c = "S" -> "s"
      [] c = "W" -> "w"
      [] OTHER -> c
\* str.lower()
Lower(host) == [i \in 1..Len(host) |-> LowerChar(host[i])]

Www == <<"w", "w", "w", ".">>
StartsWithWww(host) == Len(host) >= 4 /\ SubSeq(host, 1, 4) = Www

extract_domain(rooturl) ==
    IF IsDigitsDots(rooturl.host) THEN rooturl.host ELSE Lower(rooturl.host)

\* host_okay stripping a "www." prefix but never prepending one
host_okay_StripOnly(host0, root_domain) ==
    LET host == Lower(host0) IN
    IF host = root_domain THEN TRUE
    ELSE IF IsDigitsDots(host) THEN FALSE
    ELSE LET toggled == IF StartsWithWww(host)
                        THEN SubSeq(host, 5, Len(host))
                        ELSE host
         IN toggled = root_domain

host_okay(host0, root_domain) ==
    LET host == Lower(host0) IN
    IF host = root_domain THEN TRUE
    ELSE IF IsDigitsDots(host) THEN FALSE
    ELSE LET toggled == IF StartsWithWww(host)
                        THEN SubSeq(host, 5, Len(host))
                        ELSE Www \o host
         IN toggled = root_domain

url_allowed(url, root_domain) ==
    IF url.scheme \notin {"http", "https"} THEN FALSE
    ELSE IF ~host_okay(url.host, root_domain) THEN FALSE
    ELSE TRUE

\* urllib.parse.urljoin for the reference forms of Hrefs: a reference with a
\* scheme stands for itself, a path-absolute reference takes the scheme and
\* the host of the base.  The fragment of the reference is kept.
urljoin(base, ref) ==
    IF ref.scheme # "" THEN ref
    ELSE URL(base.scheme, base.host, ref.path, ref.frag)

\* urllib.parse.urldefrag(...)[0]
urldefrag(url) == URL(url.scheme, url.host, url.path, "")

normalize_url(url, response) == urldefrag(urljoin(response.url, url))

----------------------------------------------------------------------------
(* Responses.  headers['location'] and the body's anchors are what the     *)
(* site sends; a response whose text() raises has decodable = FALSE.       *)

RedirectStatuses == {300, 301, 302, 303, 307}

is_redirect(response) == response.status \in RedirectStatuses

Response(status, location, ctype, hrefs, decodable) ==
    [status |-> status, location |-> location, ctype |-> ctype,
     hrefs |-> hrefs, decodable |-> decodable]

\* the anchors and Location headers of an answer
Weight(answer) == Cardinality(answer.hrefs) + Len(answer.location)

\* an answer that counts against MaxSpecial
Special(answer) ==
    ~ \/ answer.status = 200 /\ answer.ctype = "text/html" /\ answer.decodable
      \/ answer.status \in RedirectStatuses /\ answer.location # <<>>

SmallSubsets(S) == {T \in SUBSET S : Cardinality(T) <= MaxLinks}

\* what the site may answer to a GET (besides failing in transport)
Answers ==
    {Response(301, <<h>>, "text/html", {}, TRUE) : h \in Locations}
    \cup {Response(302, <<>>, "text/html", {}, TRUE)}
    \cup {Response(200, <<>>, "text/html", hs, TRUE) : hs \in SmallSubsets(Hrefs)}
    \cup {Response(200, <<>>, "application/xml", {RelB}, TRUE)}
    \cup {Response(200, <<>>, "text/html", {RelB}, FALSE)}
    \cup {Response(200, <<>>, "text/plain", {RelB}, TRUE)}
    \cup {Response(200, <<>>, "none", {RelB}, TRUE)}
    \cup {Response(404, <<>>, "text/html", {RelB}, TRUE)}

----------------------------------------------------------------------------
VARIABLES
    root,          \* Crawler.root
    root_domain,   \* Crawler.root_domain
    max_redirect,  \* Crawler.max_redirect
    max_tasks,     \* Crawler.max_tasks
    q,             \* Crawler.q: the queued items, oldest first
    unfinished,    \* Crawler.q._unfinished_tasks
    seen_urls,     \* Crawler.seen_urls
    visited,       \* Crawler.visited: the FetchStatistic records
    sitemap,       \* Crawler.sitemap: the entries [url, links], one per key
    t1,            \* Crawler.t1: "None" until crawl() sets it
    cpc,           \* where the crawl() coroutine is
    workers,       \* the bag of the work() tasks, each [pc, item, resp, exc]:
                   \*   pc: the suspension point the task is at
                   \*   item: the (url, max_redirect) it took, or <<>>
                   \*   resp: <<the response it holds>>, or <<>>
                   \*   exc: whether an exception is propagating in it
    log,           \* the messages LOGGER.info and LOGGER.error were given
    putlog,        \* history: every item ever put on q, in order
    served,        \* history: the GETs answered, as [url, answer]
    site_links,    \* history: the anchors and Location headers served
    site_special,  \* history: the special answers and transport failures
    released       \* history: the bag of the URLs whose response was released

vars == <<root, root_domain, max_redirect, max_tasks, q, unfinished,
          seen_urls, visited, sitemap, t1, cpc, workers,
          log, putlog, served, site_links, site_special, released>>

config == <<root, root_domain, max_redirect, max_tasks>>

\* the local states of the worker tasks
Workers == BagToSet(workers)

\* a worker waiting in q.get()
Waiting == [pc |-> "q.get", item |-> <<>>, resp |-> <<>>, exc |-> FALSE]

\* one worker goes from the local state w to the local state v
Step(w, v) == workers' = (workers (-) SetToBag({w})) (+) SetToBag({v})

\* Crawler.__init__: the root is admitted by add_url(root)
Init ==
    /\ root \in Roots
    /\ root_domain = extract_domain(root)
    /\ max_redirect \in 0..MaxRedirect
    /\ max_tasks \in 1..MaxTasks
    /\ q = <<<<root, max_redirect>>>>
    /\ unfinished = 1
    /\ seen_urls = {root}
    /\ visited = <<>>
    /\ sitemap = {}
    /\ t1 = "None"
    /\ cpc = "init"
    /\ workers = EmptyBag
    /\ putlog = <<<<root, max_redirect>>>>
    /\ served = {}
    /\ log = {}
    /\ site_links = 0
    /\ site_special = 0
    /\ released = EmptyBag

----------------------------------------------------------------------------
(* The queue and the admission of URLs.                                    *)

\* LOGGER.info and LOGGER.error
LOGGER(level, msg, url, from) ==
    log' = log \cup {[level |-> level, msg |-> msg, url |-> url, from |-> from]}

\* the site answers a GET: the history of the site
\* (answer is <<>> for a transport failure, <<a>> for the answer a)
Serve(url, answer, links, special) ==
    /\ site_links + links <= MaxSiteLinks
    /\ site_special + special <= MaxSpecial
    /\ served' = served \cup {[url |-> url, answer |-> answer]}
    /\ site_links' = site_links + links
    /\ site_special' = site_special + special

site == <<served, site_links, site_special>>

\* Queue.put_nowait for each item of items, in order
put_nowait(items) ==
    /\ q' = q \o items
    /\ unfinished' = unfinished + Len(items)
    /\ putlog' = putlog \o items

\* add_url queueing the URL without adding it to seen_urls
add_url_PutOnly(url, redirects) ==
    /\ UNCHANGED seen_urls
    /\ put_nowait(<<<<url, redirects>>>>)

add_url(url, redirects) ==
    /\ seen_urls' = seen_urls \cup {url}
    /\ put_nowait(<<<<url, redirects>>>>)

\* process_redirect following a redirect with no budget left
process_redirect_OffByOne(response, url, redirects) ==
    LET next_url == urljoin(url, response.location[1]) IN
    IF next_url \in seen_urls
    THEN UNCHANGED <<seen_urls, q, unfinished, putlog, log>>
    ELSE IF redirects >= 0
         THEN /\ LOGGER("info", "redirect to", next_url, url)
              /\ add_url(next_url, redirects - 1)
         ELSE /\ LOGGER("error", "redirect limit reached", next_url, url)
              /\ UNCHANGED <<seen_urls, q, unfinished, putlog>>

\* process_redirect without the test of seen_urls
process_redirect_NoSeenCheck(response, url, redirects) ==
    LET next_url == urljoin(url, response.location[1]) IN
    IF redirects > 0
    THEN /\ LOGGER("info", "redirect to", next_url, url)
         /\ add_url(next_url, redirects - 1)
    ELSE /\ LOGGER("error", "redirect limit reached", next_url, url)
         /\ UNCHANGED <<seen_urls, q, unfinished, putlog>>

\* process_redirect handing the budget on without taking one off
process_redirect_SameBudget(response, url, redirects) ==
    LET next_url == urljoin(url, response.location[1]) IN
    IF next_url \in seen_urls
    THEN UNCHANGED <<seen_urls, q, unfinished, putlog, log>>
    ELSE IF redirects > 0
         THEN /\ LOGGER("info", "redirect to", next_url, url)
              /\ add_url(next_url, redirects)
         ELSE /\ LOGGER("error", "redirect limit reached", next_url, url)
              /\ UNCHANGED <<seen_urls, q, unfinished, putlog>>

process_redirect(response, url, redirects) ==
    LET next_url == urljoin(url, response.location[1]) IN
    IF next_url \in seen_urls
    THEN UNCHANGED <<seen_urls, q, unfinished, putlog, log>>
    ELSE IF redirects > 0
         THEN /\ LOGGER("info", "redirect to", next_url, url)
              /\ add_url(next_url, redirects - 1)
         ELSE /\ LOGGER("error", "redirect limit reached", next_url, url)
              /\ UNCHANGED <<seen_urls, q, unfinished, putlog>>

\* fetch queueing every link of the page
NewLinks_All(links) == links

\* the links of a parsed page that fetch queues
NewLinks(links) == links \ seen_urls

\* the orders in which Python may iterate over the set S
Orderings(S) ==
    {s \in [1..Cardinality(S) -> S] :
        \A i, j \in 1..Cardinality(S) : i # j => s[i] # s[j]}

\* parse_response scanning every body with status 200
Parsed_AnyType(response) == response.status = 200

\* whether parse_response scans the body for anchors
Parsed(response) ==
    /\ response.status = 200
    /\ response.ctype \in {"text/html", "application/xml"}

\* parse_response up to the statistic: the normalized anchors of the body
normalized_urls(response) ==
    IF Parsed(response)
    THEN {normalize_url(h, response) : h \in response.hrefs}
    ELSE {}

\* parse_response returning the links of every host
parse_links_AnyHost(response) == normalized_urls(response)

\* parse_response: the links it returns
parse_links(response) ==
    {n \in normalized_urls(response) : url_allowed(n, root_domain)}

\* parse_response counting every link as new
parse_stat_CountAll(response) ==
    [url |-> response.url,
     status |-> response.status,
     content_type |-> IF response.status = 200 THEN response.ctype ELSE "none",
     num_urls |-> Cardinality(parse_links(response)),
     num_new_urls |-> Cardinality(parse_links(response))]

\* parse_response: the FetchStatistic it returns
parse_stat(response) ==
    [url |-> response.url,
     status |-> response.status,
     content_type |-> IF response.status = 200 THEN response.ctype ELSE "none",
     num_urls |-> Cardinality(parse_links(response)),
     num_new_urls |-> Cardinality(parse_links(response) \ seen_urls)]

update_sitemap(url, urls) ==
    sitemap' = {e \in sitemap : e.url # url} \cup {[url |-> url, links |-> urls]}

record_statistic(stat) == visited' = Append(visited, stat)

\* Queue.task_done
task_done == unfinished' = unfinished - 1

\* response.release() has returned
release(response) == released' = released (+) SetToBag({response.url})

----------------------------------------------------------------------------------------------------------------------------------------
(* crawl() and work().                                                     *)

\* crawl() creating one worker more than max_tasks
CrawlStart_OneMore ==
    /\ cpc = "init"
    /\ cpc' = "join"
    /\ workers' = [w \in {Waiting} |-> max_tasks + 1]
    /\ UNCHANGED <<config, q, unfinished, seen_urls, visited, sitemap, t1,
                   log, putlog, site, released>>

\* crawl() up to q.join(): the workers are created and wait in q.get()
CrawlStart ==
    /\ cpc = "init"
    /\ cpc' = "join"
    /\ workers' = [w \in {Waiting} |-> max_tasks]
    /\ UNCHANGED <<config, q, unfinished, seen_urls, visited, sitemap, t1,
                   log, putlog, site>>
    /\ UNCHANGED released

\* a join that waits for the queue to be empty only
Drained_QueueEmpty == q = <<>>

\* q.join() wakes up
Drained == unfinished = 0

\* crawl() cancelling the workers without waiting in q.join()
CrawlJoined_NoJoin ==
    /\ cpc = "join"
    /\ t1' = "set"
    /\ cpc' = "done"
    /\ UNCHANGED <<config, q, unfinished, seen_urls, visited, sitemap,
                   workers, log, putlog, site, released>>

\* crawl() after q.join(): t1 is set and every worker is cancelled
CrawlJoined ==
    /\ cpc = "join"
    /\ Drained
    /\ t1' = "set"
    /\ cpc' = "done"
    /\ UNCHANGED <<config, q, unfinished, seen_urls, visited, sitemap,
                   workers, log, putlog, site>>
    /\ UNCHANGED released

\* work(): q.get() returns an item, the assertion, fetch up to session.get()
WorkGet(w) ==
    /\ w.pc = "q.get"
    /\ q # <<>>
    /\ q' = Tail(q)
    /\ IF Head(q)[1] \in seen_urls
       THEN Step(w, [w EXCEPT !.pc = "session.get", !.item = Head(q)])
       ELSE Step(w, [w EXCEPT !.pc = "dead", !.exc = TRUE])
    /\ UNCHANGED <<config, unfinished, seen_urls, visited, sitemap, t1, cpc,
                   log, putlog, site>>
    /\ UNCHANGED released

\* work(): w.cancel() raises CancelledError at the suspension point the
\* worker is at; work() catches it and returns
WorkCancelled(w) ==
    /\ cpc = "done"
    /\ w.pc \in {"q.get", "session.get", "read", "release"}
    /\ Step(w, [w EXCEPT !.pc = "cancelled"])
    /\ UNCHANGED <<config, q, unfinished, seen_urls, visited, sitemap, t1,
                   cpc, log, putlog, site>>
    /\ UNCHANGED released

\* fetch() letting the ClientError of session.get() out: the task ends
FetchClientError_Raises(w) ==
    /\ w.pc = "session.get"
    /\ Serve(w.item[1], <<>>, 0, 1)
    /\ Step(w, [w EXCEPT !.pc = "dead", !.exc = TRUE])
    /\ UNCHANGED <<config, q, unfinished, seen_urls, visited, sitemap, t1,
                   cpc, log, putlog>>
    /\ UNCHANGED released

\* fetch(): session.get() raises aiohttp.ClientError; fetch returns and
\* work() marks the item done
FetchClientError(w) ==
    /\ w.pc = "session.get"
    /\ Serve(w.item[1], <<>>, 0, 1)
    /\ LOGGER("error", "raised client error", w.item[1], w.item[1])
    /\ task_done
    /\ Step(w, Waiting)
    /\ UNCHANGED <<config, q, seen_urls, visited, sitemap, t1, cpc, putlog>>
    /\ UNCHANGED released

\* the response object of an answer to the GET of url
Received(url, answer) ==
    [url |-> url, status |-> answer.status, location |-> answer.location,
     ctype |-> answer.ctype, hrefs |-> answer.hrefs,
     decodable |-> answer.decodable]

\* fetch(): session.get() returns a redirect; process_redirect runs, or
\* headers['location'] raises KeyError; then response.release() is awaited
FetchRedirect(w, answer) ==
    /\ w.pc = "session.get"
    /\ is_redirect(answer)
    /\ Serve(w.item[1], <<answer>>, Weight(answer),
             IF Special(answer) THEN 1 ELSE 0)
    /\ IF answer.location = <<>>
       THEN /\ Step(w, [w EXCEPT !.pc = "release", !.exc = TRUE,
                                 !.resp = <<Received(w.item[1], answer)>>])
            /\ UNCHANGED <<seen_urls, q, unfinished, putlog, log>>
       ELSE /\ Step(w, [w EXCEPT !.pc = "release",
                                 !.resp = <<Received(w.item[1], answer)>>])
            /\ process_redirect(Received(w.item[1], answer),
                                w.item[1], w.item[2])
    /\ UNCHANGED <<config, visited, sitemap, t1, cpc>>
    /\ UNCHANGED released

\* fetch(): session.get() returns another response; parse_response awaits
\* response.read()
FetchResponse(w, answer) ==
    /\ w.pc = "session.get"
    /\ ~is_redirect(answer)
    /\ Serve(w.item[1], <<answer>>, Weight(answer),
             IF Special(answer) THEN 1 ELSE 0)
    /\ Step(w, [w EXCEPT !.pc = "read",
                         !.resp = <<Received(w.item[1], answer)>>])
    /\ UNCHANGED <<config, q, unfinished, seen_urls, visited, sitemap, t1,
                   cpc, log, putlog>>
    /\ UNCHANGED released

\* parse_response after response.read(), then the rest of fetch()'s try
\* block: the statistic is recorded and the unseen links are queued
FetchParse(w) ==
    /\ w.pc = "read"
    /\ w.resp[1].decodable \/ ~Parsed(w.resp[1])
    /\ LET response == w.resp[1]
           links == parse_links(response)
       IN /\ IF Parsed(response)
             THEN update_sitemap(response.url, normalized_urls(response))
             ELSE UNCHANGED sitemap
          /\ record_statistic(parse_stat(response))
          /\ \E order \in Orderings(NewLinks(links)) :
                put_nowait([i \in 1..Len(order) |-> <<order[i], max_redirect>>])
          /\ seen_urls' = seen_urls \cup links
    /\ Step(w, [w EXCEPT !.pc = "release"])
    /\ UNCHANGED <<config, t1, cpc, log, site>>
    /\ UNCHANGED released

\* fetch() without the finally: the exception of response.text() ends the
\* task at once
FetchParseRaises_NoFinally(w) ==
    /\ w.pc = "read"
    /\ Parsed(w.resp[1])
    /\ ~w.resp[1].decodable
    /\ Step(w, [w EXCEPT !.pc = "dead", !.exc = TRUE])
    /\ UNCHANGED <<config, q, unfinished, seen_urls, visited, sitemap, t1,
                   cpc, log, putlog, site, released>>

\* parse_response: response.text() raises; fetch()'s finally awaits
\* response.release() while the exception propagates
FetchParseRaises(w) ==
    /\ w.pc = "read"
    /\ Parsed(w.resp[1])
    /\ ~w.resp[1].decodable
    /\ Step(w, [w EXCEPT !.pc = "release", !.exc = TRUE])
    /\ UNCHANGED <<config, q, unfinished, seen_urls, visited, sitemap, t1,
                   cpc, log, putlog, site>>
    /\ UNCHANGED released

\* fetch()'s finally is over and fetch() returns; work() marks the item done
WorkTaskDone(w) ==
    /\ w.pc = "release"
    /\ ~w.exc
    /\ task_done
    /\ Step(w, Waiting)
    /\ UNCHANGED <<config, q, seen_urls, visited, sitemap, t1, cpc,
                   log, putlog, site>>
    /\ release(w.resp[1])

\* fetch()'s finally is over and the exception leaves fetch() and work():
\* work() catches only CancelledError, the worker's task ends
WorkRaises(w) ==
    /\ w.pc = "release"
    /\ w.exc
    /\ Step(w, [w EXCEPT !.pc = "dead", !.resp = <<>>])
    /\ UNCHANGED <<config, q, unfinished, seen_urls, visited, sitemap, t1,
                   cpc, log, putlog, site>>
    /\ release(w.resp[1])

Next ==
    \/ CrawlStart
    \/ CrawlJoined
    \/ \E w \in Workers : WorkGet(w)
    \/ \E w \in Workers : WorkCancelled(w)
    \/ \E w \in Workers : FetchClientError(w)
    \/ \E w \in Workers : \E answer \in Answers : FetchRedirect(w, answer)
    \/ \E w \in Workers : \E answer \in Answers : FetchResponse(w, answer)
    \/ \E w \in Workers : FetchParse(w)
    \/ \E w \in Workers : FetchParseRaises(w)
    \/ \E w \in Workers : WorkTaskDone(w)
    \/ \E w \in Workers : WorkRaises(w)

Spec == Init /\ [][Next]_vars

\* The event loop runs every coroutine that can run, and every GET is
\* answered or fails.
FairSpec == Spec /\ WF_vars(Next)

----------------------------------------------------------------------------
(* add_url as an operation of the class: a caller that holds a constructed *)
(* Crawler calls the method with a URL and a budget of its choice.         *)

\* the URLs a caller passes to add_url
AdmitURLs == {RootURL, urldefrag(PageAFrag), urljoin(RootURL, RelB), PageX}

\* one call of add_url(url, redirects)
AddUrl(url, redirects) ==
    /\ Len(putlog) <= MaxAdmits
    /\ add_url(url, redirects)
    /\ UNCHANGED <<config, visited, sitemap, t1, cpc, workers, log, site>>
    /\ UNCHANGED released

AdmitNext == \E url \in AdmitURLs : \E redirects \in 0..MaxRedirect :
                AddUrl(url, redirects)

AdmitSpec == Init /\ [][AdmitNext]_vars

----------------------------------------------------------------------------
(* host_okay on many hosts: crawls with one worker whose root and whose    *)
(* anchors have the hosts of HostInputs, answered by text/html pages.      *)

HostUpper == <<"E", "X">>
HostIP == <<"1", ".", "2">>

\* the hosts host_okay and extract_domain are given
HostInputs ==
    {HostEx, HostUpper, Www \o HostEx, HostSub, Www \o HostSub,
     Www \o Www \o HostEx, HostIP, Www \o HostIP}

HostURL(host) == URL("http", host, "/", "")

HostAnswers ==
    {Response(200, <<>>, "text/html", hs, TRUE) :
        hs \in SmallSubsets({HostURL(h) : h \in HostInputs})}

\* Crawler.__init__ with the root of any host
HostInit ==
    /\ root \in {HostURL(h) : h \in HostInputs}
    /\ root_domain = extract_domain(root)
    /\ max_redirect = 0
    /\ max_tasks = 1
    /\ q = <<<<root, max_redirect>>>>
    /\ unfinished = 1
    /\ seen_urls = {root}
    /\ visited = <<>>
    /\ sitemap = {}
    /\ t1 = "None"
    /\ cpc = "init"
    /\ workers = EmptyBag
    /\ putlog = <<<<root, max_redirect>>>>
    /\ served = {}
    /\ log = {}
    /\ site_links = 0
    /\ site_special = 0
    /\ released = EmptyBag

HostNext ==
    \/ CrawlStart
    \/ CrawlJoined
    \/ \E w \in Workers : WorkGet(w)
    \/ \E w \in Workers : WorkCancelled(w)
    \/ \E w \in Workers : \E answer \in HostAnswers : FetchResponse(w, answer)
    \/ \E w \in Workers : FetchParse(w)
    \/ \E w \in Workers : WorkTaskDone(w)

HostSpec == HostInit /\ [][HostNext]_vars

----------------
(* The site as the answers so far describe it.                             *)

IsError(s) == s.answer = <<>>
IsRedirect(s) == s.answer # <<>> /\ is_redirect(s.answer[1])
IsPage(s) == s.answer # <<>> /\ ~is_redirect(s.answer[1])
\* the response raises while fetch processes it
Raises(s) ==
    \/ IsRedirect(s) /\ s.answer[1].location = <<>>
    \/ IsPage(s) /\ Parsed(s.answer[1]) /\ ~s.answer[1].decodable

\* the in-scope links of the page served for s.url
SiteLinks(s) ==
    IF IsPage(s) /\ Parsed(s.answer[1])
    THEN {u \in {urldefrag(urljoin(s.url, h)) : h \in s.answer[1].hrefs} :
            url_allowed(u, root_domain)}
    ELSE {}

\* the URLs reachable from the URLs of R through in-scope links
RECURSIVE ReachFrom(_)
ReachFrom(R) ==
    LET N == R \cup UNION {SiteLinks(s) : s \in {t \in served : t.url \in R}}
    IN IF N = R THEN R ELSE ReachFrom(N)

Redirects == {s \in served : IsRedirect(s)}
RedirectTarget(s) == urljoin(s.url, s.answer[1].location[1])

VisitedURLs == {visited[i].url : i \in 1..Len(visited)}
PutCount(url) == Cardinality({i \in 1..Len(putlog) : putlog[i][1] = url})

----------------------------------------------------------------------------
(* C1: under every interleaving of the workers no URL is put on the queue  *)
(* more than once: the root, every redirect target and every discovered    *)
(* link is queued at most one time over the whole run.                     *)
C1_NoUrlQueuedTwice ==
    \A i, j \in 1..Len(putlog) : i # j => putlog[i][1] # putlog[j][1]

\* two workers have both parsed a page, fetched at the same time, and both
\* pages link to a URL that is neither of the two pages nor the root
C1_Witness ==
    \E w1, w2 \in Workers :
        /\ w1 # w2
        /\ w1.pc = "release" /\ w2.pc = "release"
        /\ w1.item[1] # root /\ w2.item[1] # root
        /\ ~w1.exc /\ ~w2.exc
        /\ ~is_redirect(w1.resp[1]) /\ ~is_redirect(w2.resp[1])
        /\ \E u \in parse_links(w1.resp[1]) \cap parse_links(w2.resp[1]) :
              /\ u \notin {root, w1.item[1], w2.item[1]}
              /\ PutCount(u) = 1

----------------------------------------------------------------------------
(* C2: when every GET is answered by a response that is not a redirect and *)
(* that fetch processes without an exception, crawl() terminates for every *)
(* max_tasks, and the statistics then hold exactly one record for every    *)
(* URL reachable from the root through in-scope links.                     *)
Undisturbed == \A s \in served : IsPage(s) /\ ~Raises(s)

C2_OneRecordPerReachable ==
    /\ Len(visited) = Cardinality(ReachFrom({root}))
    /\ VisitedURLs = ReachFrom({root})

\* C2: a crawl answered by pages only ends, with one record per reachable URL
C2_CrawlCompletes ==
    /\ [](cpc = "done" /\ Undisturbed => C2_OneRecordPerReachable)
    /\ <>(cpc = "done" \/ ~Undisturbed)

\* a crawl with two workers is over: the root linked to two in-scope
\* pages without further links, and there are exactly 3 records
C2_Witness ==
    /\ cpc = "done"
    /\ Undisturbed
    /\ max_tasks = 2
    /\ Cardinality(served) = 3
    /\ \E s \in served : s.url = root /\ Cardinality(SiteLinks(s)) = 2
    /\ Len(visited) = 3

----------------------------------------------------------------------------
(* C3: crawl()'s wait for the drain returns, and t1 is set, only when the  *)
(* queue is empty and every item a worker took is marked done: no worker   *)
(* is then fetching an item that could queue more items.                   *)
C3_JoinOnlyWhenDrained ==
    t1 = "set" =>
        /\ q = <<>>
        /\ \A w \in Workers : w.pc \in {"q.get", "cancelled"}
        /\ \A w \in Workers : w.item = <<>>

\* t1 is set after a crawl in which workers took several items
C3_Witness ==
    /\ t1 = "set"
    /\ Len(visited) >= 3
    /\ max_tasks = 2

----------------------------------------------------------------------------
(* C4: a chain of L redirects to URLs not seen before, ending at a page,   *)
(* crawled with max_redirect = M: if L <= M the final page is fetched and  *)
(* gets its record; if L > M the chain is dropped after M + 1 redirect     *)
(* responses and nothing is recorded.                                      *)
ChainRun ==
    /\ \A s \in served : ~IsError(s) /\ ~Raises(s)
    /\ \A s \in served : IsPage(s) => SiteLinks(s) = {}
    /\ \A s \in Redirects : RedirectTarget(s) # root
    /\ \A s, t \in Redirects : s # t => RedirectTarget(s) # RedirectTarget(t)

\* C4: a chain of L redirects completes if L <= max_redirect, else is dropped
C4_RedirectChain ==
    cpc = "done" /\ ChainRun =>
        IF Cardinality(Redirects) <= max_redirect
        THEN /\ Len(visited) = 1
             /\ visited[1].url \notin {s.url : s \in Redirects}
             /\ visited[1].url \in {root} \cup {RedirectTarget(s) : s \in Redirects}
        ELSE /\ Cardinality(Redirects) = max_redirect + 1
             /\ visited = <<>>

\* a chain longer than max_redirect was followed max_redirect times and
\* then dropped
C4_Witness ==
    /\ cpc = "done"
    /\ ChainRun
    /\ max_redirect >= 2
    /\ Cardinality(Redirects) = max_redirect + 1
    /\ visited = <<>>

----------------------------------------------------------------------------
(* C5: a redirect whose target is already in seen_urls puts nothing on the *)
(* queue, whatever budget the redirected item has left.                    *)
C5_SeenTargetNotQueued ==
    [][\A s \in served' \ served :
         (/\ IsRedirect(s)
          /\ s.answer[1].location # <<>>
          /\ RedirectTarget(s) \in seen_urls)
         => (putlog' = putlog /\ q' = q /\ unfinished' = unfinished)]_vars

\* a worker has handled a redirect to a URL that was seen before, with
\* budget left, and the target was not queued for it
C5_Witness ==
    \E w \in Workers :
        /\ w.pc = "release"
        /\ is_redirect(w.resp[1])
        /\ w.resp[1].location # <<>>
        /\ w.item[2] > 0
        /\ urljoin(w.item[1], w.resp[1].location[1]) \in seen_urls
        /\ <<urljoin(w.item[1], w.resp[1].location[1]), w.item[2] - 1>>
              \notin {putlog[i] : i \in 1..Len(putlog)}

----------------------------------------------------------------------------
(* C6: every URL admitted to seen_urls and the queue, whether it came from *)
(* an anchor or from a Location header, has a host that host_okay accepts  *)
(* for the root domain.                                                    *)
C6_AdmittedInScope ==
    \A u \in seen_urls : host_okay(u.host, root_domain)

----------------------------------------------------------------------------
(* C7: when session.get() fails in transport, the item ends without a      *)
(* record, without an admission and without a sitemap entry, the item is   *)
(* marked done and the worker is back in q.get(); and a crawl in which     *)
(* GETs failed in transport still drains (unless a worker has raised while *)
(* it processed a response, which is the case of C8).                      *)
C7_TransportFailure ==
    /\ [][\A s \in served' \ served :
            IsError(s) =>
              /\ visited' = visited
              /\ sitemap' = sitemap
              /\ seen_urls' = seen_urls
              /\ putlog' = putlog /\ q' = q
              /\ unfinished' = unfinished - 1
              /\ CopiesIn(Waiting, workers') = CopiesIn(Waiting, workers) + 1
         ]_vars
    /\ (\E s \in served : IsError(s))
          ~> (cpc = "done" \/ \E w \in Workers : w.exc)

\* a crawl with one worker is over; a GET failed in transport and the
\* worker then fetched an item that was queued after the failed one
C7_Witness ==
    /\ cpc = "done"
    /\ max_tasks = 1
    /\ \E s \in served :
          /\ IsError(s)
          /\ \E i \in 1..Len(visited) : \E j, k \in 1..Len(putlog) :
                /\ putlog[j][1] = s.url
                /\ putlog[k][1] = visited[i].url
                /\ j < k

----------------------------------------------------------------------------
(* C8: no error while a response is processed is fatal: when parsing fails *)
(* or a redirect cannot be processed the item is still marked done and the *)
(* worker keeps running, so no worker task ever ends with an exception.    *)
C8_WorkersSurviveErrors ==
    \A w \in Workers : w.pc # "dead"

----------------------------------------------------------------------------
(* C9: a response that is no redirect and whose status is not 200, or      *)
(* whose content type is neither text/html nor application/xml, gets a     *)
(* record with zero links, admits nothing and gets no sitemap entry; the   *)
(* sitemap holds entries for pages with status 200 and one of the two      *)
(* content types only, never for a redirect.                               *)
C9_UnparsedResponse ==
    /\ [][\A w \in Workers :
            (/\ w.pc = "read"
             /\ \/ w.resp[1].status # 200
                \/ w.resp[1].ctype \notin {"text/html", "application/xml"}
             /\ CopiesIn(w, workers') < CopiesIn(w, workers))
            => /\ Len(visited') = Len(visited) + 1
               /\ visited'[Len(visited')].url = w.resp[1].url
               /\ visited'[Len(visited')].num_urls = 0
               /\ visited'[Len(visited')].num_new_urls = 0
               /\ putlog' = putlog /\ q' = q
               /\ seen_urls' = seen_urls
               /\ sitemap' = sitemap
         ]_vars
    /\ [](\A e \in sitemap : \E s \in served :
            /\ s.url = e.url
            /\ IsPage(s)
            /\ s.answer[1].status = 200
            /\ s.answer[1].ctype \in {"text/html", "application/xml"})

\* a text/plain body with an anchor in it was fetched: it has a record
\* with zero links and no sitemap entry
C9_Witness ==
    \E i \in 1..Len(visited) : \E s \in served :
        /\ s.url = visited[i].url
        /\ IsPage(s)
        /\ s.answer[1].ctype = "text/plain"
        /\ s.answer[1].hrefs # {}
        /\ visited[i].num_urls = 0
        /\ \A e \in sitemap : e.url # s.url

----------------------------------------------------------------------------
(* C10: the statistics receive exactly one record for every fetch whose    *)
(* response is not a redirect, as soon as fetch has processed it, and none *)
(* for a fetch whose response is a redirect.                               *)
RecordCount(url) ==
    Cardinality({i \in 1..Len(visited) : visited[i].url = url})

\* C10: one record per processed non-redirect response, none per redirect
C10_OneRecordPerFetch ==
    \A s \in served :
        IF IsPage(s)
        THEN \/ \E w \in Workers : w.pc = "read" /\ w.item[1] = s.url
             \/ RecordCount(s.url) = 1
        ELSE RecordCount(s.url) = 0

----------------------------------------------------------------------------
(* C11: add_url is idempotent: called for a URL that is already in         *)
(* seen_urls it does nothing, so a URL admitted twice, with the same or    *)
(* with another budget, is on the record of the puts exactly once.         *)
C11_AddUrlIdempotent ==
    \A u \in seen_urls : PutCount(u) = 1

----------------------------------------------------------------------------
(* C12: host_okay(h) is true exactly when the lower-cased h is the root    *)
(* domain, or h is not made only of digits and dots and h with its "www."  *)
(* prefix toggled is the root domain.  Below, ex stands for example.com,   *)
(* s.ex for sub.example.com and 1.2 for 192.168.0.1.                        *)
C12_Toggle(l) == IF StartsWithWww(l) THEN SubSeq(l, 5, Len(l)) ELSE Www \o l

C12_InScope(h, d) ==
    \/ Lower(h) = d
    \/ ~IsDigitsDots(h) /\ C12_Toggle(Lower(h)) = d

\* the anchors of the pages parsed so far
C12_Anchors ==
    UNION {s.answer[1].hrefs : s \in {t \in served : t.url \in VisitedURLs}}

C12_Exactly ==
    /\ \A h \in HostInputs : host_okay(h, root_domain) <=> C12_InScope(h, root_domain)
    /\ \A a \in C12_Anchors : a \in seen_urls <=> C12_InScope(a.host, root_domain)

C12_Examples ==
    root.host = HostEx =>
        /\ host_okay(HostEx, root_domain)
        /\ host_okay(Www \o HostEx, root_domain)
        /\ ~host_okay(HostSub, root_domain)
        /\ ~host_okay(HostIP, root_domain)

\* h is in scope of the root exactly when the root's host is in scope of h
C12_Symmetric(h) ==
    host_okay(h, root_domain) <=> host_okay(root.host, extract_domain(HostURL(h)))

\* neither made only of digits and dots nor beginning with "www.www."
C12_Plain(h) ==
    /\ ~IsDigitsDots(h)
    /\ ~(StartsWithWww(Lower(h)) /\ StartsWithWww(C12_Toggle(Lower(h))))

\* C12 as claimed: host_okay is as described, and symmetric for all hosts
C12_HostOkaySymmetric ==
    /\ C12_Exactly
    /\ C12_Examples
    /\ \A h \in HostInputs : C12_Symmetric(h)

\* C12 as amended: host_okay is as described, and symmetric for the hosts
\* that are neither made only of digits and dots nor begin with "www.www."
C12_HostOkay ==
    /\ C12_Exactly
    /\ C12_Examples
    /\ \A h \in HostInputs :
          C12_Plain(h) /\ C12_Plain(root.host) => C12_Symmetric(h)

\* the root www.ex served a page with anchors to ex and to s.ex: ex was
\* admitted and s.ex was not
C12_Witness ==
    /\ root.host = Www \o HostEx
    /\ {HostURL(HostEx), HostURL(HostSub)} \subseteq C12_Anchors
    /\ HostURL(HostEx) \in seen_urls
    /\ HostURL(HostSub) \notin seen_urls

----------------------------------------------------------------------------
(* C13: every response fetch obtains is released exactly once, whether     *)
(* fetch ends normally, after a redirect or with an exception of the       *)
(* parser, and before the item is marked done; a GET that failed in        *)
(* transport left no response; after the drain nothing is unreleased.      *)
C13_Holders(url) ==
    {w \in Workers : w.resp # <<>> /\ w.resp[1].url = url}

C13_Held(url) ==
    /\ Cardinality(C13_Holders(url)) = 1
    /\ \A w \in C13_Holders(url) :
          CopiesIn(w, workers) = 1 /\ w.pc \in {"read", "release"}

\* C13: each response is held by one fetch that will release it, or was
\* released once; the step that marks an item done releases its response
C13_ReleasedOnce ==
    /\ [](\A s \in served :
            IF IsError(s)
            THEN C13_Holders(s.url) = {} /\ CopiesIn(s.url, released) = 0
            ELSE \/ C13_Held(s.url) /\ CopiesIn(s.url, released) = 0
                 \/ C13_Holders(s.url) = {} /\ CopiesIn(s.url, released) = 1)
    /\ [](cpc = "done" =>
            \A s \in served : ~IsError(s) => CopiesIn(s.url, released) = 1)
    /\ [][unfinished' < unfinished =>
            \/ \E s \in served' \ served : IsError(s)
            \/ \E u \in BagToSet(released') :
                  CopiesIn(u, released') = CopiesIn(u, released) + 1]_vars

\* a worker ended with the exception of the parser and its response was
\* released; the response of a redirect was released as well
C13_Witness ==
    /\ \E w \in Workers : w.pc = "dead"
    /\ \E s \in served :
          IsPage(s) /\ Raises(s) /\ CopiesIn(s.url, released) = 1
    /\ \E s \in served : IsRedirect(s) /\ CopiesIn(s.url, released) = 1

----------------------------------------------------------------------------
(* C14: a worker is cancelled only after crawl() has seen the queue        *)
(* drained: it is then waiting in q.get() on the empty queue, holds no     *)
(* item and no response, and ends without an exception.                    *)
C14_CancelledAfterDrain ==
    /\ [](\A w \in Workers :
            w.pc = "cancelled" =>
                /\ cpc = "done" /\ t1 = "set"
                /\ unfinished = 0 /\ q = <<>>
                /\ w.item = <<>> /\ w.resp = <<>> /\ ~w.exc)
    /\ [][\A v \in BagToSet(workers') :
            (v.pc = "cancelled" /\ CopiesIn(v, workers') > CopiesIn(v, workers))
            => /\ cpc = "done" /\ Drained
               /\ CopiesIn(Waiting, workers') = CopiesIn(Waiting, workers) - 1
         ]_vars

\* both workers of a crawl that fetched several pages are cancelled
C14_Witness ==
    /\ max_tasks = 2
    /\ Len(visited) >= 2
    /\ \A w \in Workers : w.pc = "cancelled"
    /\ \E w \in Workers : CopiesIn(w, workers) = 2

----------------------------------------------------------------------------
(* C15: the URL of every queued item and of every item a worker has taken  *)
(* is in seen_urls, so the assertion of work() never fails; and no URL     *)
(* ever leaves seen_urls.                                                  *)
C15_QueuedAreSeen ==
    /\ [](\A i \in 1..Len(q) : q[i][1] \in seen_urls)
    /\ [](\A w \in Workers : w.item # <<>> => w.item[1] \in seen_urls)
    /\ [](\A w \in Workers : ~(w.pc = "dead" /\ w.item = <<>>))
    /\ [][seen_urls \subseteq seen_urls']_vars

\* a worker has taken the target of a redirect while a link is queued
C15_Witness ==
    /\ Len(q) >= 1
    /\ \E w \in Workers :
          /\ w.pc = "session.get"
          /\ w.item[2] < max_redirect
          /\ w.item[1] \in seen_urls

----------------------------------------------------------------------------
(* C16: at most max_tasks fetches are in flight: the items taken from the  *)
(* queue and not yet marked done are never more than max_tasks, and the    *)
(* worker tasks crawl() has created are max_tasks, no more and no fewer,   *)
(* for the whole crawl (tasks that have ended are counted).                *)
C16_InFlight == unfinished - Len(q)

C16_Fetching ==
    {w \in Workers : w.pc \in {"session.get", "read", "release"}}

C16_AtMostMaxTasks ==
    /\ C16_InFlight <= max_tasks
    /\ BagCardinality([w \in C16_Fetching |-> CopiesIn(w, workers)]) <= max_tasks
    /\ cpc = "init" => workers = EmptyBag
    /\ cpc # "init" => BagCardinality(workers) = max_tasks

\* two workers are fetching and an item waits in the queue for one of them
C16_Witness ==
    /\ max_tasks = 2
    /\ C16_InFlight = 2
    /\ BagCardinality([w \in C16_Fetching |-> CopiesIn(w, workers)]) = 2
    /\ q # <<>>

----------------------------------------------------------------------------
(* C17: every item put on the queue has a budget in 0..max_redirect: the   *)
(* root and the links of a page are put with max_redirect, the target of a *)
(* redirect with the budget of the redirected item minus one, and no item  *)
(* with a negative budget.                                                 *)
C17_NewPuts == {putlog'[i] : i \in (Len(putlog) + 1)..Len(putlog')}

C17_Budgets ==
    /\ [](\A i \in 1..Len(putlog) : putlog[i][2] \in 0..max_redirect)
    /\ [](\A i \in 1..Len(q) : q[i][2] \in 0..max_redirect)
    /\ [](putlog[1] = <<root, max_redirect>>)
    /\ [][Len(visited') > Len(visited) =>
            \A item \in C17_NewPuts : item[2] = max_redirect]_vars
    /\ [][\A s \in served' \ served :
            IsRedirect(s) =>
              \A item \in C17_NewPuts :
                \E w \in Workers :
                  /\ w.pc = "session.get"
                  /\ w.item[1] = s.url
                  /\ CopiesIn(w, workers') < CopiesIn(w, workers)
                  /\ item[2] = w.item[2] - 1]_vars

\* with max_redirect = 2 a chain of two redirects was followed, the second
\* target was put with budget 0, and a link was put with budget 2
C17_Witness ==
    /\ max_redirect = 2
    /\ \E i, j, k \in 2..Len(putlog) :
          /\ putlog[i][2] = 1
          /\ putlog[j][2] = 0
          /\ putlog[k][2] = 2

----------------------------------------------------------------------------
(* C18: every URL of seen_urls and of the queue, the root apart, is        *)
(* absolute and without fragment, whether it came from an anchor or from a *)
(* Location header, so no two admitted URLs differ in the fragment only.   *)
C18_Normal(u) == u.scheme # "" /\ u.host # <<>> /\ u.frag = ""

C18_FragmentFree ==
    /\ \A u \in seen_urls \ {root} : C18_Normal(u)
    /\ \A i \in 1..Len(q) : q[i][1] # root => C18_Normal(q[i][1])
    /\ \A u, v \in seen_urls : urldefrag(u) = urldefrag(v) => u = v

----------------------------------------------------------------------------
(* C19: unfinished is the number of the queued items plus the number of    *)
(* the items a worker has taken and not yet marked done, and every taken   *)
(* item is marked done once, never zero times and never twice: an item     *)
(* not yet marked done is held by a worker that is still fetching it.      *)
C19_Holding == {w \in Workers : w.item # <<>>}

C19_Taken == BagCardinality([w \in C19_Holding |-> CopiesIn(w, workers)])

C19_UnfinishedCount ==
    /\ unfinished = Len(q) + C19_Taken
    /\ unfinished = 0 => q = <<>> /\ C19_Holding = {}
    /\ \A w \in C19_Holding : w.pc \in {"session.get", "read", "release"}

----------------------------------------------------------------------------
(* C20: the num_new_urls of every record is the number of links the same   *)
(* fetch puts on the queue, whatever the other workers do meanwhile; so    *)
(* the sum of num_new_urls over the records, plus the root, plus the       *)
(* admitted redirect targets, is the size of seen_urls.                    *)
RECURSIVE C20_SumNew(_)
C20_SumNew(n) ==
    IF n = 0 THEN 0 ELSE visited[n].num_new_urls + C20_SumNew(n - 1)

\* the redirect targets admitted: process_redirect logs each of them
C20_AdmittedTargets == {l \in log : l.msg = "redirect to"}

C20_NewUrlsCounted ==
    /\ [][Len(visited') > Len(visited) =>
            /\ Len(putlog') - Len(putlog) = visited'[Len(visited')].num_new_urls
            /\ Cardinality(seen_urls' \ seen_urls)
                  = visited'[Len(visited')].num_new_urls]_vars
    /\ [](C20_SumNew(Len(visited)) + 1 + Cardinality(C20_AdmittedTargets)
            = Cardinality(seen_urls))

\* a crawl with two workers is over; one page had two links of which one
\* was new, and a redirect target was admitted
C20_Witness ==
    /\ cpc = "done"
    /\ max_tasks = 2
    /\ C20_AdmittedTargets # {}
    /\ \E i \in 1..Len(visited) :
          visited[i].num_urls = 2 /\ visited[i].num_new_urls = 1

====
